---- MODULE Spec2Model ----
(***************************************************************************)
(* Model of the inverse window factorization (iwfac) plan of ltfat and of  *)
(* the canonical dual window drivers gabdual_long / gabdual_fir.           *)
(*                                                                         *)
(*   SpecExec : the loop nest of iwfac_execute, one (r, w, l, k) body per  *)
(*              step, on every plan iwfac_init can produce.                *)
(*   SpecPlan : the plan API (iwfac_init / iwfac_execute / iwfac_done and  *)
(*              the one-shot iwfac) driven through one caller handle.      *)
(*   SpecDual : the drivers gabdual_long and gabdual_fir.                  *)
(***************************************************************************)
EXTENDS Integers, Sequences, FiniteSets

(* ---- bounds of the model ---- *)
MaxL == 8
MaxA == 4
MaxR == 2
PlanMaxL == 4
PlanMaxA == 2
MaxPlans == 1
DualMaxL == 6
DualMaxA == 3
MaxFir == 3
MaxFaults == 2

(* ---- status codes ---- *)
LTFATERR_SUCCESS == "Success"
LTFATERR_NOTPOSARG == "NotPositiveArg"
LTFATERR_BADARG == "BadArgument"
LTFATERR_NOTAFRAME == "NotAFrame"
LTFATERR_NULLPOINTER == "NullArg"
LTFATERR_NOMEM == "AllocationFailed"
LTFATERR_INITFAILED == "PlanCreation"

(* ---- integer helpers ---- *)

\* C's % truncates toward zero: the sign of the result is the dividend's.
CRem(x, y) == IF x >= 0 THEN x % y ELSE 0 - ((0 - x) % y)

\* C's / on a non-negative dividend and a positive divisor.
CDiv(x, y) == x \div y

positiverem(x, y) == LET c == CRem(x, y) IN IF c < 0 THEN c + y ELSE c

RECURSIVE ltfat_gcd(_, _)
ltfat_gcd(x, y) == IF y = 0 THEN x ELSE ltfat_gcd(y, x % y)

ltfat_lcm(x, y) == CDiv(x * y, ltfat_gcd(x, y))

(* ---- the lattice descriptor computed by iwfac_init ---- *)

\* The validation with the frame condition M >= a added.
InitArgStatus_frameCheck(L, a, M) ==
    IF ~(a > 0) THEN LTFATERR_NOTPOSARG
    ELSE IF ~(M > 0) THEN LTFATERR_NOTPOSARG
    ELSE IF ~(M >= a) THEN LTFATERR_NOTAFRAME
    ELSE IF ~(L > 0 /\ CRem(L, ltfat_lcm(a, M)) = 0) THEN LTFATERR_BADARG
    ELSE LTFATERR_SUCCESS

\* The argument validation of iwfac_init, in the order of the code; the
\* status of the first failing check, LTFATERR_SUCCESS when all pass.
InitArgStatus(L, a, M) ==
    IF ~(a > 0) THEN LTFATERR_NOTPOSARG
    ELSE IF ~(M > 0) THEN LTFATERR_NOTPOSARG
    ELSE IF ~(L > 0 /\ CRem(L, ltfat_lcm(a, M)) = 0) THEN LTFATERR_BADARG
    ELSE LTFATERR_SUCCESS

\* The fields iwfac_init stores in the plan. scaling = 1/sqrt(M)/d is kept
\* as the pair of its two divisors.
PlanFields(L, a, M) ==
    LET b == CDiv(L, M)
        c == ltfat_gcd(a, M)
        p == CDiv(a, c)
        q == CDiv(M, c)
        d == CDiv(b, p)
    IN [b |-> b, c |-> c, p |-> p, q |-> q, d |-> d,
        a |-> a, M |-> M, L |-> L, scaling |-> <<M, d>>]

NoPlan == [b |-> 0, c |-> 0, p |-> 0, q |-> 0, d |-> 0,
           a |-> 0, M |-> 0, L |-> 0, scaling |-> <<0, 0>>]

(* ---- index arithmetic of iwfac_execute ---- *)

negremOf(pl, l, k) == positiverem(k * pl.M - l * pl.a, pl.L)

\* remOf with the stride of s taken as M instead of p*M.
remOf_strideM(pl, l, k, s) == CRem(negremOf(pl, l, k) + s * pl.M, pl.L)

\* remOf without the final reduction modulo L.
remOf_noMod(pl, l, k, s) == negremOf(pl, l, k) + s * pl.p * pl.M

remOf(pl, l, k, s) == CRem(negremOf(pl, l, k) + s * pl.p * pl.M, pl.L)

\* Position of g written for (r, w, l, k, s).
gIndex(pl, r, w, l, k, s) == r + remOf(pl, l, k, s) + pl.L * w

\* ld3 without the factor R.
ld3Of_noR(pl, R) == pl.c * pl.p * pl.q

ld3Of(pl, R) == pl.c * pl.p * pl.q * R

\* Real lane of gf read for the even lane counter s2 at pointer offset gfp.
gfLane(gfp, ld3, s2) == gfp + s2 * ld3

(* ---- resources and call records ---- *)

Resources == {"struct", "sbuf", "fftw", "gf", "gdf", "tmpLong"}

NoRes == [x \in Resources |-> 0]

\* One more of each resource of S.
Plus(cnt, S) == [x \in Resources |-> IF x \in S THEN cnt[x] + 1 ELSE cnt[x]]

Sum(c1, c2) == [x \in Resources |-> c1[x] + c2[x]]

NoCall == [op |-> "none", status |-> "none", args |-> <<>>, nulls |-> {},
           acq |-> NoRes, rel |-> NoRes, nullDeref |-> FALSE,
           rd |-> 0, wr |-> 0, sub |-> <<>>, out |-> <<>>]

\* Where an allocation of iwfac_init may fail.
AllocFailures == {"none", "calloc", "malloc", "fftw"}

(* ---- iwfac_init ---- *)

\* The outcome of iwfac_init(L, a, M, flags, pout): the status, whether a
\* plan was made and with which fields, the resources acquired and released
\* inside the call, whether the error path stores through a NULL pout, and
\* whether the error path reaches the store *pout = NULL.
InitRes(L, a, M, poutNull, fail) ==
    LET argSt == InitArgStatus(L, a, M)
        status == IF poutNull THEN LTFATERR_NULLPOINTER
                  ELSE IF argSt # LTFATERR_SUCCESS THEN argSt
                  ELSE IF fail \in {"calloc", "malloc"} THEN LTFATERR_NOMEM
                  ELSE IF fail = "fftw" THEN LTFATERR_INITFAILED
                  ELSE LTFATERR_SUCCESS
        reached == ~poutNull /\ argSt = LTFATERR_SUCCESS
        \* plan != NULL, plan->sbuf != NULL, plan->p_before != NULL
        planPtr == reached /\ fail # "calloc"
        sbufPtr == planPtr /\ fail # "malloc"
        fftwPtr == sbufPtr /\ fail # "fftw"
        acq == Plus(NoRes,
                 (IF planPtr THEN {"struct"} ELSE {})
                 \cup (IF sbufPtr THEN {"sbuf"} ELSE {})
                 \cup (IF fftwPtr THEN {"fftw"} ELSE {}))
        failed == status # LTFATERR_SUCCESS
        \* error: if (plan) { if (p_before) destroy; free(sbuf); free(plan); }
        rel == IF failed /\ planPtr
               THEN Plus(NoRes,
                      (IF fftwPtr THEN {"fftw"} ELSE {})
                      \cup (IF sbufPtr THEN {"sbuf"} ELSE {})
                      \cup {"struct"})
               ELSE NoRes
    IN [status |-> status, made |-> ~failed,
        fields |-> IF failed THEN NoPlan ELSE PlanFields(L, a, M),
        acq |-> acq, rel |-> rel, nullDeref |-> failed /\ poutNull,
        setNull |-> failed]

(* ---- iwfac_execute as one call ---- *)

IterSpace(pl, R) ==
    (0..(pl.c - 1)) \X (0..(R - 1)) \X (0..(pl.q - 1)) \X (0..(pl.p - 1))
        \X (0..(pl.d - 1))

\* Complex index of gf read at the body number n = ((r*R + w)*q + l)*p + k:
\* the pointer has advanced by 2 real lanes per body.
gfIndex(pl, R, r, w, l, k, s) ==
    CDiv(gfLane(2 * (((r * R + w) * pl.q + l) * pl.p + k), ld3Of(pl, R), 2 * s), 2)

ExecReads(pl, R) ==
    {gfIndex(pl, R, t[1], t[2], t[3], t[4], t[5]) : t \in IterSpace(pl, R)}

ExecWrites(pl, R) ==
    {gIndex(pl, t[1], t[2], t[3], t[4], t[5]) : t \in IterSpace(pl, R)}

\* The outcome of iwfac_execute(plan, gf, R, g).
ExecRes(planNull, pl, gfNull, gNull, R) ==
    LET status == IF planNull \/ gNull \/ gfNull THEN LTFATERR_NULLPOINTER
                  ELSE IF ~(R > 0) THEN LTFATERR_NOTPOSARG
                  ELSE LTFATERR_SUCCESS
        ran == status = LTFATERR_SUCCESS
    IN [status |-> status,
        rd |-> IF ran THEN Cardinality(ExecReads(pl, R)) ELSE 0,
        wr |-> IF ran THEN Cardinality(ExecWrites(pl, R)) ELSE 0]

(* ---- iwfac_done ---- *)

\* iwfac_done that leaves the caller's handle as it was.
DoneRes_keepHandle(poutNull, h) ==
    LET status == IF poutNull \/ h = 0 THEN LTFATERR_NULLPOINTER
                  ELSE LTFATERR_SUCCESS
        ran == status = LTFATERR_SUCCESS
    IN [status |-> status,
        rel |-> IF ran THEN Plus(NoRes, {"fftw", "sbuf", "struct"}) ELSE NoRes,
        handle |-> h]

\* The outcome of iwfac_done(pout) with *pout = h: the status, the resources
\* released and the value left in *pout.
DoneRes(poutNull, h) ==
    LET status == IF poutNull \/ h = 0 THEN LTFATERR_NULLPOINTER
                  ELSE LTFATERR_SUCCESS
        ran == status = LTFATERR_SUCCESS
    IN [status |-> status,
        rel |-> IF ran THEN Plus(NoRes, {"fftw", "sbuf", "struct"}) ELSE NoRes,
        handle |-> IF ran THEN 0 ELSE h]

(* ---- contents of the buffers, as terms over the caller's samples ---- *)

\* A buffer of n cells that every cell of which reads as tag.
Fresh(tag, n) == [i \in 0..(n - 1) |-> <<tag, i>>]

Undef(n) == [i \in 0..(n - 1) |-> <<"undef">>]

\* The body number n of the loop nest runs (r, w, l, k) =
\* (n / (p*q*R), (n / (p*q)) % R, (n / p) % q, n % p).
BodyOf(pl, R, n) ==
    [r |-> CDiv(n, pl.p * pl.q * R), w |-> CRem(CDiv(n, pl.p * pl.q), R),
     l |-> CRem(CDiv(n, pl.p), pl.q), k |-> CRem(n, pl.p)]

\* The scratch buffer after the load of body n: d complex samples of gf,
\* each multiplied by the scaling.
Load(pl, R, gf, n) ==
    [s \in 1..pl.d |->
        <<"mul", gf[CDiv(gfLane(2 * n, ld3Of(pl, R), 2 * (s - 1)), 2)], pl.scaling>>]

\* The in-place backward transform of the scratch buffer.
Backward(sbuf) == [s \in 1..Len(sbuf) |-> <<"idft", s - 1, sbuf>>]

\* The scatter with its loop started at s = 1.
Scatter_skipFirst(pl, R, cplx, sbuf, n, g) ==
    LET b == BodyOf(pl, R, n)
        pos(s) == gIndex(pl, b.r, b.w, b.l, b.k, s - 1)
        hits(i) == {s \in 2..pl.d : pos(s) = i}
        top(S) == CHOOSE s \in S : \A x \in S : x <= s
    IN [i \in DOMAIN g |->
           IF hits(i) = {} THEN g[i]
           ELSE IF cplx THEN sbuf[top(hits(i))]
           ELSE <<"re", sbuf[top(hits(i))]>>]

\* The scatter of body n into g; a later s overwrites an earlier one.
Scatter(pl, R, cplx, sbuf, n, g) ==
    LET b == BodyOf(pl, R, n)
        pos(s) == gIndex(pl, b.r, b.w, b.l, b.k, s - 1)
        hits(i) == {s \in 1..pl.d : pos(s) = i}
        top(S) == CHOOSE s \in S : \A x \in S : x <= s
    IN [i \in DOMAIN g |->
           IF hits(i) = {} THEN g[i]
           ELSE IF cplx THEN sbuf[top(hits(i))]
           ELSE <<"re", sbuf[top(hits(i))]>>]

RECURSIVE ExecFrom(_, _, _, _, _, _)
ExecFrom(pl, R, cplx, gf, n, g) ==
    IF n >= pl.c * R * pl.q * pl.p THEN g
    ELSE ExecFrom(pl, R, cplx, gf, n + 1,
                  Scatter(pl, R, cplx, Backward(Load(pl, R, gf, n)), n, g))

\* The window left in g by the loop nest of iwfac_execute.
ExecOut(pl, R, cplx, gf, g) == ExecFrom(pl, R, cplx, gf, 0, g)

(* ---- the one-shot iwfac ---- *)

\* The allocation of iwfac_init that fails first under the fault set F.
FirstAlloc(F) ==
    IF "calloc" \in F THEN "calloc"
    ELSE IF "malloc" \in F THEN "malloc"
    ELSE IF "fftw" \in F THEN "fftw"
    ELSE "none"

\* What iwfac returns and leaves behind, given the outcomes ini, exe, don of
\* its three calls: execute and done are not reached when init has failed.
IwfacJoin(cplx, gf, R, g, ini, exe, don) ==
    IF ini.status # LTFATERR_SUCCESS
    THEN [status |-> ini.status, acq |-> ini.acq, rel |-> ini.rel,
          rd |-> 0, wr |-> 0, out |-> g, made |-> ini.made,
          sub |-> << <<"iwfac_init", ini.status>> >>]
    ELSE [status |-> exe.status, acq |-> ini.acq,
          rel |-> Sum(ini.rel, don.rel),
          rd |-> exe.rd, wr |-> exe.wr,
          out |-> IF exe.status = LTFATERR_SUCCESS
                  THEN ExecOut(ini.fields, R, cplx, gf, g) ELSE g,
          made |-> ini.made,
          sub |-> << <<"iwfac_init", ini.status>>,
                     <<"iwfac_execute", exe.status>>,
                     <<"iwfac_done", don.status>> >>]

\* The local handle p after init: 1 = the new plan, 0 = NULL. Execute runs
\* on it; done runs when it is not NULL.
IwfacRun(cplx, gf, gfNull, R, g, gNull, ini) ==
    IwfacJoin(cplx, gf, R, g, ini,
              ExecRes(~ini.made, ini.fields, gfNull, gNull, R),
              DoneRes(FALSE, IF ini.made THEN 1 ELSE 0))

\* iwfac that validates R before it builds the plan.
IwfacRes_checksRFirst(cplx, gf, gfNull, L, R, a, M, g, gNull, F) ==
    IF ~(R > 0)
    THEN [status |-> LTFATERR_NOTPOSARG, acq |-> NoRes, rel |-> NoRes,
          rd |-> 0, wr |-> 0, out |-> g, made |-> FALSE, sub |-> <<>>]
    ELSE IwfacRun(cplx, gf, gfNull, R, g, gNull,
                  InitRes(L, a, M, FALSE, FirstAlloc(F)))

\* The outcome of iwfac(gf, L, R, a, M, g): init into a local handle, execute
\* when init succeeded, then done when the local handle is not NULL.
IwfacRes(cplx, gf, gfNull, L, R, a, M, g, gNull, F) ==
    IwfacRun(cplx, gf, gfNull, R, g, gNull,
             InitRes(L, a, M, FALSE, FirstAlloc(F)))

(* ---- the sub-steps of gabdual_long that live outside these files ---- *)

\* The slot (r, w, l, k, s) stored at complex index i of a factor buffer.
SlotOf(pl, R, i) ==
    CHOOSE t \in IterSpace(pl, R) :
        gfIndex(pl, R, t[1], t[2], t[3], t[4], t[5]) = i

\* wfac: gf[s,k,l,r,w] is the length-d forward transform, at frequency s, of
\* the samples g[(r + (k*M - l*a + j*p*M) mod L) + L*w], j = 0..d-1.
Wfac(pl, R, g) ==
    [i \in 0..(pl.L * R - 1) |->
        LET t == SlotOf(pl, R, i)
        IN <<"wfac", t[5],
             [j \in 1..pl.d |->
                g[t[1] + positiverem(t[4] * pl.M - t[3] * pl.a
                                       + (j - 1) * pl.p * pl.M, pl.L)
                  + pl.L * t[2]]]>>]

\* gabdual_fac: each p x q slab of gf (fixed s, r, w) is replaced by its
\* canonical dual; entry (k, l) of the result depends on the whole slab.
GabdualFac(pl, R, gf) ==
    [i \in 0..(pl.L * R - 1) |->
        LET t == SlotOf(pl, R, i)
        IN <<"dual", t[4], t[3],
             [kk \in 1..pl.p |-> [ll \in 1..pl.q |->
                gf[gfIndex(pl, R, t[1], t[2], ll - 1, kk - 1, t[5])]]]>>]

\* fir2long: the first ceil(gl/2) samples stay at the start, the last
\* floor(gl/2) move to the end, zeros in between.
Fir2Long(g, gl, L) ==
    LET head == CDiv(gl + 1, 2)
        tail == CDiv(gl, 2)
    IN [i \in 0..(L - 1) |->
           IF i < head THEN g[i]
           ELSE IF i >= L - tail THEN g[i - (L - gl)]
           ELSE <<"zero">>]

\* long2fir: the first ceil(gl/2) and the last floor(gl/2) samples.
Long2Fir(v, L, gl) ==
    LET head == CDiv(gl + 1, 2)
    IN [i \in 0..(gl - 1) |-> IF i < head THEN v[i] ELSE v[i + (L - gl)]]

(* ---- gabdual_long ---- *)

LongArgStatus(L, R, a, M) ==
    IF ~(R > 0) THEN LTFATERR_NOTPOSARG
    ELSE IF ~(M >= a) THEN LTFATERR_NOTAFRAME
    ELSE IF ~(L > 0 /\ CRem(L, ltfat_lcm(a, M)) = 0) THEN LTFATERR_BADARG
    ELSE LTFATERR_SUCCESS

\* Status of a sub-step outside these files: NullArg on a NULL window,
\* the given failure when the environment makes it fail.
SubStatus(isNull, fails, err) ==
    IF isNull THEN LTFATERR_NULLPOINTER
    ELSE IF fails THEN err
    ELSE LTFATERR_SUCCESS

\* LTFAT_SAFEFREEALL(gdf, gf) that frees its first argument only.
LongRelease_gdfOnly(gfPtr, gdfPtr) ==
    Plus(NoRes, IF gdfPtr THEN {"gdf"} ELSE {})

\* error: LTFAT_SAFEFREEALL(gdf, gf) frees the pointers that are not NULL.
LongRelease(gfPtr, gdfPtr) ==
    Plus(NoRes, (IF gdfPtr THEN {"gdf"} ELSE {})
                \cup (IF gfPtr THEN {"gf"} ELSE {}))

\* What gabdual_long returns and leaves behind, given the pointers it got
\* from ltfat_malloc, the statuses wfSt, facSt of the first two sub-steps
\* and the outcome iw of the third (iwfac, or iwfacreal in the real regime).
LongJoin(cplx, mem, gdname, argSt, gfPtr, gdfPtr, wfSt, facSt, iw) ==
    IF argSt # LTFATERR_SUCCESS
    THEN [status |-> argSt, acq |-> NoRes, rel |-> NoRes,
          sub |-> <<>>, mem |-> mem]
    ELSE IF ~gdfPtr
    THEN [status |-> LTFATERR_NOMEM,
          acq |-> Plus(NoRes, IF gfPtr THEN {"gf"} ELSE {}),
          rel |-> LongRelease(gfPtr, gdfPtr),
          sub |-> <<>>, mem |-> mem]
    ELSE IF cplx
    THEN IF wfSt # LTFATERR_SUCCESS
         THEN [status |-> wfSt, acq |-> Plus(NoRes, {"gf", "gdf"}),
               rel |-> LongRelease(gfPtr, gdfPtr),
               sub |-> << <<"wfac", wfSt>> >>, mem |-> mem]
         ELSE \* the status of gabdual_fac is dropped
              [status |-> iw.status,
               acq |-> Sum(Plus(NoRes, {"gf", "gdf"}), iw.acq),
               rel |-> Sum(LongRelease(gfPtr, gdfPtr), iw.rel),
               sub |-> << <<"wfac", wfSt>>, <<"gabdual_fac", facSt>>,
                          <<"iwfac", iw.status>> >>,
               mem |-> [mem EXCEPT ![gdname] = iw.out]]
    ELSE \* the statuses of the three real sub-steps are dropped
         [status |-> LTFATERR_SUCCESS, acq |-> Plus(NoRes, {"gf", "gdf"}),
          rel |-> LongRelease(gfPtr, gdfPtr),
          sub |-> << <<"wfacreal", wfSt>>, <<"gabdualreal_fac", facSt>>,
                     <<"iwfacreal", iw.status>> >>,
          mem |-> [mem EXCEPT ![gdname] = iw.out]]

\* iwfacreal(gdf, L, R, a, M, gd): the scatter of iwfac_execute with real
\* parts only; nothing is written when it fails.
Iwfacreal(pl, R, gdf, g, gdNull, fails) ==
    [status |-> SubStatus(gdNull, fails, LTFATERR_NOMEM),
     out |-> IF SubStatus(gdNull, fails, LTFATERR_NOMEM) = LTFATERR_SUCCESS
             THEN ExecOut(pl, R, FALSE, gdf, g) ELSE g]

\* The third sub-step on the factor gdf.
LongThird(cplx, gdf, L, R, a, M, g, gdNull, F) ==
    IF cplx THEN IwfacRes(TRUE, gdf, FALSE, L, R, a, M, g, gdNull, F)
    ELSE Iwfacreal(PlanFields(L, a, M), R, gdf, g, gdNull, "iwfacreal" \in F)

\* The second sub-step: gabdual_fac / gabdualreal_fac reads gf, writes gdf;
\* gdf stays as ltfat_malloc left it when the step fails.
LongSecond(pl, R, gf, n, facSt) ==
    IF facSt = LTFATERR_SUCCESS THEN GabdualFac(pl, R, gf) ELSE Undef(n)

\* The first sub-step: wfac / wfacreal reads g, writes gf.
LongFirst(pl, R, g, n, wfSt) ==
    IF wfSt = LTFATERR_SUCCESS THEN Wfac(pl, R, g) ELSE Undef(n)

\* The outcome of gabdual_long(g, L, R, a, M, gd) on the memory mem, where
\* gname and gdname name the buffers passed as g and gd (the same name when
\* the call is in place): the status, the allocations and releases, the
\* sub-steps run with their statuses, and the memory left.
GabdualLongRes(cplx, mem, gname, gNull, L, R, a, M, gdname, gdNull, F) ==
    LET argSt == LongArgStatus(L, R, a, M)
        gfPtr == argSt = LTFATERR_SUCCESS /\ "gf" \notin F
        wfSt == SubStatus(gNull, "wfac" \in F, LTFATERR_NOMEM)
        facSt == SubStatus(FALSE, "fac" \in F, LTFATERR_NOTAFRAME)
    IN LongJoin(cplx, mem, gdname, argSt, gfPtr, gfPtr /\ "gdf" \notin F,
                wfSt, facSt,
                LongThird(cplx,
                          LongSecond(PlanFields(L, a, M), R,
                                     LongFirst(PlanFields(L, a, M), R,
                                               mem[gname], L * R, wfSt),
                                     L * R, facSt),
                          L, R, a, M, mem[gdname], gdNull, F))

(* ---- gabdual_fir ---- *)

FirArgStatus(gNull, gl, L, gdl, gdNull) ==
    IF gNull \/ gdNull THEN LTFATERR_NULLPOINTER
    ELSE IF ~(gl > 0) THEN LTFATERR_NOTPOSARG
    ELSE IF ~(L > 0) THEN LTFATERR_NOTPOSARG
    ELSE IF ~(gdl > 0) THEN LTFATERR_NOTPOSARG
    ELSE IF ~(L >= gl /\ L >= gdl) THEN LTFATERR_BADARG
    ELSE LTFATERR_SUCCESS

\* What gabdual_fir returns and leaves in gd, given the pointer it got for
\* tmpLong, the statuses of fir2long and long2fir and the outcome lng of
\* gabdual_long on tmpLong.
FirJoin(L, gdl, gd, argSt, tmpPtr, f2lSt, lng, l2fSt) ==
    IF argSt # LTFATERR_SUCCESS
    THEN [status |-> argSt, acq |-> NoRes, rel |-> NoRes,
          sub |-> <<>>, out |-> gd]
    ELSE IF ~tmpPtr
    THEN [status |-> LTFATERR_NOMEM, acq |-> NoRes, rel |-> NoRes,
          sub |-> <<>>, out |-> gd]
    ELSE IF f2lSt # LTFATERR_SUCCESS
    THEN [status |-> f2lSt, acq |-> Plus(NoRes, {"tmpLong"}),
          \* error: if (tmpLong) ltfat_free(tmpLong)
          rel |-> Plus(NoRes, {"tmpLong"}),
          sub |-> << <<"fir2long", f2lSt>> >>, out |-> gd]
    ELSE IF lng.status # LTFATERR_SUCCESS
    THEN [status |-> lng.status,
          acq |-> Plus(lng.acq, {"tmpLong"}), rel |-> Plus(lng.rel, {"tmpLong"}),
          sub |-> << <<"fir2long", f2lSt>>, <<"gabdual_long", lng.status>> >>,
          out |-> gd]
    ELSE [status |-> l2fSt,
          acq |-> Plus(lng.acq, {"tmpLong"}), rel |-> Plus(lng.rel, {"tmpLong"}),
          sub |-> << <<"fir2long", f2lSt>>, <<"gabdual_long", lng.status>>,
                     <<"long2fir", l2fSt>> >>,
          out |-> IF l2fSt = LTFATERR_SUCCESS
                  THEN Long2Fir(lng.mem.tmpLong, L, gdl) ELSE gd]

\* The outcome of gabdual_fir(g, gl, L, a, M, gdl, gd), g and gd being the
\* contents of the caller's windows: fir2long into tmpLong, gabdual_long in
\* place on tmpLong with R = 1, long2fir into gd, tmpLong freed at the end.
GabdualFirRes(cplx, g, gNull, gl, L, a, M, gdl, gd, gdNull, F) ==
    LET argSt == FirArgStatus(gNull, gl, L, gdl, gdNull)
    IN FirJoin(L, gdl, gd, argSt,
               argSt = LTFATERR_SUCCESS /\ "tmpLong" \notin F,
               SubStatus(FALSE, "fir2long" \in F, LTFATERR_BADARG),
               GabdualLongRes(cplx, [tmpLong |-> Fir2Long(g, gl, L)],
                              "tmpLong", FALSE, L, 1, a, M, "tmpLong", FALSE, F),
               SubStatus(FALSE, "long2fir" \in F, LTFATERR_BADARG))

VARIABLES
    mode,      \* which part of the library the behaviour exercises
    plan,      \* SpecExec: the plan under execution
    R,         \* SpecExec: number of windows
    r, w, l, k,\* SpecExec: loop counters of the body to run next
    gfp,       \* SpecExec: offset of the moving input pointer, in real lanes
    gwr,       \* SpecExec: g position -> number of writes so far
    gfrd,      \* SpecExec: gf complex index -> number of reads so far
    oob,       \* SpecExec: indices accessed outside [0, L*R)
    rems,      \* SpecExec: residues rem produced in the current (r, w) block
    iter,      \* SpecExec: record of the body that ran last
    pc,        \* SpecExec: "loop" while bodies remain, "done" afterwards
    handle,    \* SpecPlan: the caller's plan pointer, 0 = NULL, else an object
    objs,      \* SpecPlan: the plan objects created so far; the fields of a
               \* released one are gone
    crashed,   \* SpecPlan: the process was stopped by a store through NULL
    req,       \* SpecDual: the call about to be made, with its environment
    last       \* SpecPlan, SpecDual: what the call made last did

execVars == <<plan, R, r, w, l, k, gfp, gwr, gfrd, oob, rems, iter, pc>>

planVars == <<handle, objs, crashed>>

vars == <<mode, execVars, planVars, req, last>>

NoReq == [op |-> "none", cplx |-> FALSE, L |-> 0, R |-> 0, a |-> 0, M |-> 0,
          gl |-> 0, gdl |-> 0, nulls |-> {}, faults |-> {}]

ValidLattices ==
    {t \in (1..MaxL) \X (1..MaxA) \X (1..MaxA) :
        InitArgStatus(t[1], t[2], t[3]) = LTFATERR_SUCCESS}

NoIter == [n |-> 0, r |-> 0, w |-> 0, l |-> 0, k |-> 0,
           rd |-> <<>>, wr |-> <<>>, rem |-> <<>>]

InitExec ==
    /\ mode = "exec"
    /\ \E t \in ValidLattices : plan = PlanFields(t[1], t[2], t[3])
    /\ R \in 1..MaxR
    /\ r = 0 /\ w = 0 /\ l = 0 /\ k = 0
    /\ gfp = 0
    /\ gwr = [i \in 0..(plan.L * R - 1) |-> 0]
    /\ gfrd = [i \in 0..(plan.L * R - 1) |-> 0]
    /\ oob = {}
    /\ rems = {}
    /\ iter = NoIter
    /\ pc = "loop"
    /\ handle = 0 /\ objs = <<>> /\ crashed = FALSE
    /\ req = NoReq
    /\ last = NoCall

Bump(f, idxs) ==
    [i \in DOMAIN f |-> f[i] + Cardinality({j \in DOMAIN idxs : idxs[j] = i})]

\* One body of the k loop: load d complex samples, transform, scatter d
\* samples into g, advance the input pointer by one complex element.
ExecBody ==
    /\ mode = "exec"
    /\ pc = "loop"
    /\ LET d == plan.d
           ld3 == ld3Of(plan, R)
           \* complex index read for s = 0..d-1 (lane counter 2*s)
           rd == [s \in 1..d |-> CDiv(gfLane(gfp, ld3, 2 * (s - 1)), 2)]
           rm == [s \in 1..d |-> remOf(plan, l, k, s - 1)]
           wr == [s \in 1..d |-> gIndex(plan, r, w, l, k, s - 1)]
           inR(i) == i >= 0 /\ i < plan.L * R
       IN /\ gfrd' = Bump(gfrd, rd)
          /\ gwr' = Bump(gwr, wr)
          /\ oob' = oob \cup {rd[s] : s \in {x \in 1..d : ~inR(rd[x])}}
                        \cup {wr[s] : s \in {x \in 1..d : ~inR(wr[x])}}
          /\ rems' = (IF l = 0 /\ k = 0 THEN {} ELSE rems)
                        \cup {rm[s] : s \in 1..d}
          /\ iter' = [n |-> iter.n + 1, r |-> r, w |-> w, l |-> l, k |-> k,
                      rd |-> rd, wr |-> wr, rem |-> rm]
    /\ gfp' = gfp + 2
    /\ IF k + 1 < plan.p
       THEN /\ k' = k + 1
            /\ UNCHANGED <<l, w, r, pc>>
       ELSE /\ k' = 0
            /\ IF l + 1 < plan.q
               THEN /\ l' = l + 1
                    /\ UNCHANGED <<w, r, pc>>
               ELSE /\ l' = 0
                    /\ IF w + 1 < R
                       THEN /\ w' = w + 1
                            /\ UNCHANGED <<r, pc>>
                       ELSE /\ w' = 0
                            /\ IF r + 1 < plan.c
                               THEN r' = r + 1 /\ pc' = pc
                               ELSE r' = r /\ pc' = "done"
    /\ UNCHANGED <<mode, plan, R, planVars, req, last>>

NextExec == ExecBody

SpecExec == InitExec /\ [][NextExec]_vars

(* ======================= the plan API ================================== *)

ExecIdle ==
    /\ plan = NoPlan /\ R = 0
    /\ r = 0 /\ w = 0 /\ l = 0 /\ k = 0
    /\ gfp = 0 /\ gwr = <<>> /\ gfrd = <<>>
    /\ oob = {} /\ rems = {} /\ iter = NoIter
    /\ pc = "idle"

InitPlan ==
    /\ mode = "plan"
    /\ ExecIdle
    /\ handle = 0 /\ objs = <<>> /\ crashed = FALSE
    /\ req = NoReq
    /\ last = NoCall

\* The allocation outcomes an iwfac_init call can meet: none when the call
\* fails before it allocates, no success once MaxPlans plans were created.
InitFailures(L, a, M, poutNull, made) ==
    IF poutNull \/ InitArgStatus(L, a, M) # LTFATERR_SUCCESS THEN {"none"}
    ELSE IF made >= MaxPlans THEN AllocFailures \ {"none"}
    ELSE AllocFailures

\* The (L, a, M) an iwfac_init call is made with. With pout NULL the call
\* leaves before it reads any of them, and one triple stands for all.
InitArgs(poutNull) ==
    IF poutNull THEN {<<0, 0, 0>>}
    ELSE (0..PlanMaxL) \X (0..PlanMaxA) \X (0..PlanMaxA)

\* iwfac_init(L, a, M, flags, pout), pout being NULL or the caller's handle.
iwfac_init ==
    /\ mode = "plan" /\ ~crashed
    /\ \E poutNull \in BOOLEAN :
       \E t \in InitArgs(poutNull) :
       \E fail \in InitFailures(t[1], t[2], t[3], poutNull, Len(objs)) :
         LET res == InitRes(t[1], t[2], t[3], poutNull, fail)
             call == [NoCall EXCEPT !.op = "iwfac_init",
                         !.status = res.status,
                         !.nulls = IF poutNull THEN {"pout"} ELSE {},
                         !.acq = res.acq, !.rel = res.rel,
                         !.nullDeref = res.nullDeref]
         IN IF res.nullDeref
            THEN \* *pout = NULL with pout = NULL: trap, or the store is lost
                 \E trap \in BOOLEAN :
                    /\ crashed' = trap
                    /\ last' = [call EXCEPT
                                  !.status = IF trap THEN "trap" ELSE res.status]
                    /\ UNCHANGED <<handle, objs>>
            ELSE /\ last' = call
                 /\ crashed' = crashed
                 /\ IF res.made
                    THEN /\ objs' = Append(objs, [f |-> res.fields, frees |-> NoRes])
                         /\ handle' = Len(objs) + 1
                    ELSE /\ objs' = objs
                         /\ handle' = IF res.setNull THEN 0 ELSE handle
    /\ UNCHANGED <<mode, execVars, req>>

\* iwfac_execute(plan, gf, R, g) with plan read from the caller's handle.
iwfac_execute ==
    /\ mode = "plan" /\ ~crashed
    /\ \E RR \in 0..MaxR, gfNull \in BOOLEAN, gNull \in BOOLEAN :
         LET pl == IF handle = 0 THEN NoPlan ELSE objs[handle].f
             res == ExecRes(handle = 0, pl, gfNull, gNull, RR)
         IN last' = [NoCall EXCEPT !.op = "iwfac_execute",
                        !.status = res.status, !.args = <<RR>>,
                        !.nulls = (IF handle = 0 THEN {"plan"} ELSE {})
                                  \cup (IF gfNull THEN {"gf"} ELSE {})
                                  \cup (IF gNull THEN {"g"} ELSE {}),
                        !.rd = res.rd, !.wr = res.wr]
    /\ UNCHANGED <<mode, execVars, planVars, req>>

\* iwfac_done(pout), pout being NULL or the caller's handle.
iwfac_done ==
    /\ mode = "plan" /\ ~crashed
    /\ \E poutNull \in BOOLEAN :
         LET res == DoneRes(poutNull, handle)
         IN /\ last' = [NoCall EXCEPT !.op = "iwfac_done",
                           !.status = res.status,
                           !.nulls = IF poutNull THEN {"pout"} ELSE {},
                           !.rel = res.rel]
            /\ handle' = IF poutNull THEN handle ELSE res.handle
            /\ objs' = IF res.status = LTFATERR_SUCCESS
                       THEN [objs EXCEPT ![handle] =
                               [f |-> NoPlan, frees |-> Sum(@.frees, res.rel)]]
                       ELSE objs
    /\ UNCHANGED <<mode, execVars, crashed, req>>

NextPlan == iwfac_init \/ iwfac_execute \/ iwfac_done

SpecPlan == InitPlan /\ [][NextPlan]_vars

(* ======================= the drivers =================================== *)

Faults(points) == {F \in SUBSET points : Cardinality(F) <= MaxFaults}

IwfacFaults == AllocFailures \ {"none"}

Req(op, cplx, L, RR, a, M, gl, gdl, nulls, faults) ==
    [op |-> op, cplx |-> cplx, L |-> L, R |-> RR, a |-> a, M |-> M,
     gl |-> gl, gdl |-> gdl, nulls |-> nulls, faults |-> faults]

\* The environments a call is made in: no pointer NULL and up to MaxFaults
\* faults among points, or one or more pointers NULL and no fault; only the
\* first when the arguments are rejected before anything is allocated.
Envs(argsOk, nullSets, points) ==
    IF ~argsOk THEN {<<{}, {}>>}
    ELSE {<<{}, F>> : F \in Faults(points)} \cup {<<N, {}>> : N \in nullSets}

\* The calls of iwfac the model makes: every (L, a, M, R) of the bounds.
IwfacReqs ==
    \E cx \in BOOLEAN, L \in 0..MaxL, RR \in 0..MaxR, a \in 0..MaxA, M \in 0..MaxA :
    \E e \in Envs(InitArgStatus(L, a, M) = LTFATERR_SUCCESS,
                  {{"gf"}, {"g"}, {"gf", "g"}}, IwfacFaults) :
        req = Req("iwfac", cx, L, RR, a, M, 0, 0, e[1], e[2])

LongFaults(cplx) ==
    {"gf", "gdf", "wfac", "fac"} \cup (IF cplx THEN IwfacFaults ELSE {"iwfacreal"})

\* The calls of gabdual_long the model makes, a and M positive.
LongReqs ==
    \E cx \in BOOLEAN, L \in 0..DualMaxL, RR \in 0..MaxR,
       a \in 1..DualMaxA, M \in 1..DualMaxA :
    \E e \in Envs(LongArgStatus(L, RR, a, M) = LTFATERR_SUCCESS,
                  {{"g"}, {"gd"}}, LongFaults(cx)) :
        req = Req("gabdual_long", cx, L, RR, a, M, 0, 0, e[1], e[2])

FirFaults(cplx) == {"tmpLong", "fir2long", "long2fir"} \cup LongFaults(cplx)

\* The calls of gabdual_fir the model makes, a and M positive.
FirReqs ==
    \E cx \in BOOLEAN, L \in 0..DualMaxL, a \in 1..DualMaxA, M \in 1..DualMaxA,
       gl \in 0..MaxFir, gdl \in 0..MaxFir :
    \E e \in Envs(/\ FirArgStatus(FALSE, gl, L, gdl, FALSE) = LTFATERR_SUCCESS
                  /\ LongArgStatus(L, 1, a, M) = LTFATERR_SUCCESS,
                  {}, FirFaults(cx)) :
    \E N \in IF e[2] = {} THEN {{}, {"g"}, {"gd"}} ELSE {{}} :
        req = Req("gabdual_fir", cx, L, 1, a, M, gl, gdl, N, e[2])

InitDual ==
    /\ mode = "dual"
    /\ ExecIdle
    /\ handle = 0 /\ objs = <<>> /\ crashed = FALSE
    /\ (IwfacReqs \/ LongReqs \/ FirReqs)
    /\ last = NoCall

\* iwfac(gf, L, R, a, M, g)
iwfac ==
    /\ mode = "dual" /\ req.op = "iwfac" /\ last.op = "none"
    /\ LET n == req.L * req.R
           res == IwfacRes(req.cplx, Fresh("gf", n), "gf" \in req.nulls,
                           req.L, req.R, req.a, req.M,
                           Fresh("old", n), "g" \in req.nulls, req.faults)
       IN last' = [NoCall EXCEPT !.op = "iwfac", !.status = res.status,
                      !.args = <<req.L, req.R, req.a, req.M>>,
                      !.nulls = req.nulls,
                      !.acq = res.acq, !.rel = res.rel,
                      !.rd = res.rd, !.wr = res.wr,
                      !.sub = res.sub, !.out = res.out]
    /\ UNCHANGED <<mode, execVars, planVars, req>>

\* gabdual_long(g, L, R, a, M, gd) on two distinct caller buffers
gabdual_long ==
    /\ mode = "dual" /\ req.op = "gabdual_long" /\ last.op = "none"
    /\ LET n == req.L * req.R
           mem == [g |-> Fresh("g", n), gd |-> Fresh("old", n)]
           res == GabdualLongRes(req.cplx, mem, "g", "g" \in req.nulls,
                                 req.L, req.R, req.a, req.M,
                                 "gd", "gd" \in req.nulls, req.faults)
       IN last' = [NoCall EXCEPT !.op = "gabdual_long", !.status = res.status,
                      !.args = <<req.L, req.R, req.a, req.M>>,
                      !.nulls = req.nulls,
                      !.acq = res.acq, !.rel = res.rel,
                      !.sub = res.sub, !.out = res.mem.gd]
    /\ UNCHANGED <<mode, execVars, planVars, req>>

\* gabdual_fir(g, gl, L, a, M, gdl, gd)
gabdual_fir ==
    /\ mode = "dual" /\ req.op = "gabdual_fir" /\ last.op = "none"
    /\ LET res == GabdualFirRes(req.cplx, Fresh("g", req.gl), "g" \in req.nulls,
                                req.gl, req.L, req.a, req.M, req.gdl,
                                Fresh("old", req.gdl), "gd" \in req.nulls,
                                req.faults)
       IN last' = [NoCall EXCEPT !.op = "gabdual_fir", !.status = res.status,
                      !.args = <<req.gl, req.L, req.a, req.M, req.gdl>>,
                      !.nulls = req.nulls,
                      !.acq = res.acq, !.rel = res.rel,
                      !.sub = res.sub, !.out = res.out]
    /\ UNCHANGED <<mode, execVars, planVars, req>>

NextDual == iwfac \/ gabdual_long \/ gabdual_fir

SpecDual == InitDual /\ [][NextDual]_vars

(* ======================= iwfac_execute: claims ========================= *)

\* The (r, w) block of q*p bodies has just been completed.
BlockDone == mode = "exec" /\ iter.n > 0 /\ l = 0 /\ k = 0

\* Number of bodies of the current (r, w) block that have run.
BlockBodies == IF l = 0 /\ k = 0 THEN plan.p * plan.q ELSE l * plan.p + k

\* C1 as stated: every completed (r, w) block has enumerated a set of L
\* distinct residues rem.
C1_ResiduesAreL ==
    BlockDone => Cardinality(rems) = plan.L

\* C1 (amended): within one iwfac_execute the bodies of one (r, w) block
\* produce pairwise distinct residues rem, p*q*d = L/c of them when the
\* block is complete (L only when c = 1), every one a multiple of c, and no
\* position of g is written twice.
C1_WritesUnique ==
    (mode = "exec" /\ iter.n > 0) =>
        /\ Cardinality(rems) = BlockBodies * plan.d
        /\ \A x \in rems : x >= 0 /\ x < plan.L /\ CRem(x, plan.c) = 0
        /\ \A i \in DOMAIN gwr : gwr[i] <= 1
        /\ BlockDone =>
              /\ Cardinality(rems) = plan.p * plan.q * plan.d
              /\ Cardinality(rems) * plan.c = plan.L

C1_Witness ==
    /\ mode = "exec" /\ pc = "done"
    /\ plan.c > 1 /\ plan.d > 1 /\ plan.q > 1 /\ R > 1

\* C2: every index r + rem + L*w written by iwfac_execute lies in
\* [0, L*R); r + rem stays below L, so the write stays in window w.
C2_WriteInRange ==
    (mode = "exec" /\ iter.n > 0) =>
        \A s \in DOMAIN iter.wr :
            /\ iter.wr[s] = iter.r + iter.rem[s] + plan.L * iter.w
            /\ iter.r + iter.rem[s] >= 0
            /\ iter.r + iter.rem[s] < plan.L
            /\ iter.wr[s] >= plan.L * iter.w
            /\ iter.wr[s] < plan.L * (iter.w + 1)
            /\ iter.wr[s] >= 0 /\ iter.wr[s] < plan.L * R

\* The last position of the last window has just been written, from a
\* residue class r > 0.
C2_Witness ==
    /\ mode = "exec" /\ iter.n > 0 /\ R > 1 /\ iter.r > 0
    /\ \E s \in DOMAIN iter.wr : iter.wr[s] = plan.L * R - 1

\* C10: the iteration space has L*R points; the complex element of gf read
\* at (r, w, l, k, s) is ((r*R + w)*q + l)*p + k + s*(c*p*q*R), inside
\* [0, L*R) and read once; every position of g is written exactly once
\* when execute returns.
C10_Bijection ==
    (mode = "exec" /\ iter.n > 0) =>
        /\ \A s \in DOMAIN iter.rd :
              /\ iter.rd[s] = ((iter.r * R + iter.w) * plan.q + iter.l) * plan.p
                                + iter.k + (s - 1) * (plan.c * plan.p * plan.q * R)
              /\ iter.rd[s] >= 0 /\ iter.rd[s] < plan.L * R
        /\ oob = {}
        /\ \A i \in DOMAIN gfrd : gfrd[i] <= 1
        /\ \A i \in DOMAIN gwr : gwr[i] <= 1
        /\ pc = "done" =>
              /\ iter.n * plan.d = plan.L * R
              /\ \A i \in DOMAIN gfrd : gfrd[i] = 1
              /\ \A i \in DOMAIN gwr : gwr[i] = 1

C10_Witness ==
    /\ mode = "exec" /\ pc = "done"
    /\ R > 1 /\ plan.d > 1 /\ plan.p > 1
    /\ \A i \in DOMAIN gwr : gwr[i] = 1

(* ======================= the plan API: claims ========================== *)

AllOnce(cnt, S) == \A x \in Resources : cnt[x] = IF x \in S THEN 1 ELSE 0

\* C5: a failing iwfac_init has released every resource it acquired exactly
\* once, has set *pout to NULL, and has not stored through an invalid
\* pointer.
C5_InitFailureCleansUp ==
    (mode = "plan" /\ last.op = "iwfac_init" /\ last.status # LTFATERR_SUCCESS) =>
        /\ \A x \in Resources : last.acq[x] <= 1 /\ last.rel[x] = last.acq[x]
        /\ ~last.nullDeref
        /\ ~crashed
        /\ handle = 0

\* C7: a successful init leaves the handle on a live plan; an execute on a
\* Ready plan leaves the handle and every field of the plan as they were,
\* whatever it returns; a successful done releases the FFT plan, the
\* scratch buffer and the struct once each and nulls the handle; with the
\* handle NULL, done returns NullArg and releases nothing and execute
\* returns NullArg without reading gf or writing g; no plan is released
\* twice.
C7_Lifecycle ==
    [][ mode = "plan" =>
        /\ (last'.op = "iwfac_init" /\ last'.status = LTFATERR_SUCCESS) =>
              /\ handle' # 0
              /\ objs'[handle'].frees = NoRes
        /\ (last'.op = "iwfac_execute" /\ handle # 0) =>
              /\ handle' = handle
              /\ objs' = objs
              /\ objs'[handle'].frees = NoRes
              /\ (last'.status = LTFATERR_SUCCESS =>
                    /\ last'.rd = objs[handle].f.L * last'.args[1]
                    /\ last'.wr = objs[handle].f.L * last'.args[1])
        /\ (last'.op = "iwfac_execute" /\ handle = 0) =>
              /\ last'.status = LTFATERR_NULLPOINTER
              /\ last'.rd = 0 /\ last'.wr = 0
              /\ handle' = 0 /\ objs' = objs
        /\ (last'.op = "iwfac_done" /\ last'.status = LTFATERR_SUCCESS) =>
              /\ handle # 0 /\ handle' = 0
              /\ objs[handle].frees = NoRes
              /\ AllOnce(objs'[handle].frees, {"fftw", "sbuf", "struct"})
              /\ AllOnce(last'.rel, {"fftw", "sbuf", "struct"})
              /\ \A i \in DOMAIN objs : i # handle => objs'[i] = objs[i]
        /\ (last'.op = "iwfac_done" /\ handle = 0) =>
              /\ last'.status = LTFATERR_NULLPOINTER
              /\ last'.rel = NoRes
              /\ handle' = 0 /\ objs' = objs
        /\ \A i \in DOMAIN objs' : \A x \in Resources : objs'[i].frees[x] <= 1
      ]_vars

\* A done through the handle after the plan was destroyed: NullArg, handle
\* still NULL, the destroyed plan released once.
C7_Witness ==
    /\ mode = "plan" /\ last.op = "iwfac_done"
    /\ last.status = LTFATERR_NULLPOINTER /\ last.nulls = {}
    /\ handle = 0
    /\ \E i \in DOMAIN objs : AllOnce(objs[i].frees, {"fftw", "sbuf", "struct"})

(* ======================= the drivers: claims =========================== *)

\* C3 as stated: iwfac with R = 0, L = 7, a = 2, M = 3 and both pointers
\* non-null returns NotPositiveArg.
C3_ReportsR ==
    (mode = "dual" /\ last.op = "iwfac" /\ last.args = <<7, 0, 2, 3>>
       /\ last.nulls = {}) =>
        last.status = LTFATERR_NOTPOSARG

\* C3 (amended): iwfac with R = 0, L = 7, a = 2, M = 3 returns BadArgument;
\* whenever iwfac_init rejects (L, a, M), iwfac returns that status whatever
\* R is, and a non-positive R is reported as NotPositiveArg only when
\* iwfac_init has succeeded.
C3_InitErrorFirst ==
    (mode = "dual" /\ last.op = "iwfac" /\ last.nulls = {}) =>
        LET L == last.args[1]
            RR == last.args[2]
            a == last.args[3]
            M == last.args[4]
            latticeOk == a > 0 /\ M > 0 /\ L > 0 /\ L % ltfat_lcm(a, M) = 0
        IN /\ last.args = <<7, 0, 2, 3>> => last.status = LTFATERR_BADARG
           /\ (a <= 0 \/ M <= 0) => last.status = LTFATERR_NOTPOSARG
           /\ (a > 0 /\ M > 0 /\ ~latticeOk) => last.status = LTFATERR_BADARG
           /\ (latticeOk /\ req.faults = {} /\ RR <= 0) =>
                 last.status = LTFATERR_NOTPOSARG
           /\ (last.status = LTFATERR_NOTPOSARG /\ a > 0 /\ M > 0) =>
                 latticeOk /\ RR <= 0

C3_Witness ==
    /\ mode = "dual" /\ last.op = "iwfac" /\ last.args = <<7, 0, 2, 3>>
    /\ last.nulls = {} /\ last.status = LTFATERR_BADARG

\* C4 as stated: iwfac with M < a returns NotAFrame.
C4_RejectsMBelowA ==
    (mode = "dual" /\ last.op = "iwfac" /\ last.args[4] < last.args[3]) =>
        last.status = LTFATERR_NOTAFRAME

\* C4 (amended): iwfac and its iwfac_init do not check M >= a and never
\* return NotAFrame; with M < a, a > 0, M > 0, L positive and divisible by
\* lcm(a, M), R > 0, non-null pointers and no failing allocation, init
\* builds a plan and iwfac returns Success after writing all L*R samples.
C4_NoFrameCheck ==
    (mode = "dual" /\ last.op = "iwfac") =>
        LET L == last.args[1]
            RR == last.args[2]
            a == last.args[3]
            M == last.args[4]
        IN /\ last.status # LTFATERR_NOTAFRAME
           /\ (M < a /\ M > 0 /\ L > 0 /\ L % ltfat_lcm(a, M) = 0 /\ RR > 0
                 /\ last.nulls = {} /\ req.faults = {}) =>
                 /\ last.status = LTFATERR_SUCCESS
                 /\ last.sub[1] = <<"iwfac_init", LTFATERR_SUCCESS>>
                 /\ last.wr = L * RR

C4_Witness ==
    /\ mode = "dual" /\ last.op = "iwfac" /\ last.args = <<6, 1, 3, 2>>
    /\ last.nulls = {} /\ req.faults = {}
    /\ last.status = LTFATERR_SUCCESS

\* The first sub-step of the call made last that failed, 0 when none did.
FirstFailed ==
    LET bad == {i \in DOMAIN last.sub : last.sub[i][2] # LTFATERR_SUCCESS}
    IN IF bad = {} THEN 0 ELSE CHOOSE i \in bad : \A j \in bad : i <= j

\* C6: gabdual_long stops at the first sub-step that fails and returns its
\* status; it returns Success only if all three sub-steps succeeded.
C6_SubStepErrorSurfaced ==
    (mode = "dual" /\ last.op = "gabdual_long" /\ last.sub # <<>>) =>
        IF FirstFailed = 0
        THEN last.status = LTFATERR_SUCCESS /\ Len(last.sub) = 3
        ELSE /\ last.status = last.sub[FirstFailed][2]
             /\ Len(last.sub) = FirstFailed

\* C8: every driver call has released each temporary it allocated exactly
\* once when it returns: tmpLong of gabdual_fir, gf and gdf of gabdual_long,
\* the plan (struct, scratch buffer, FFT plan) of iwfac.
C8_NoLeakNoDoubleFree ==
    (mode = "dual" /\ last.op \in {"iwfac", "gabdual_long", "gabdual_fir"}) =>
        \A x \in Resources : last.acq[x] <= 1 /\ last.rel[x] = last.acq[x]

\* gabdual_fir failed inside gabdual_long with gf allocated and gdf not.
C8_Witness ==
    /\ mode = "dual" /\ last.op = "gabdual_fir"
    /\ last.status = LTFATERR_NOMEM
    /\ AllOnce(last.acq, {"tmpLong", "gf"})
    /\ AllOnce(last.rel, {"tmpLong", "gf"})

\* The composition long2fir(gabdual_long(fir2long(g, gl, L), L, 1, a, M), L, gl)
\* on distinct buffers: its status and, on Success, its result.
RefJoin(L, gl, f2lSt, lng, l2fSt) ==
    LET status == IF f2lSt # LTFATERR_SUCCESS THEN f2lSt
                  ELSE IF lng.status # LTFATERR_SUCCESS THEN lng.status
                  ELSE l2fSt
    IN [status |-> status,
        out |-> IF status = LTFATERR_SUCCESS
                THEN Long2Fir(lng.mem.out, L, gl) ELSE Fresh("old", gl)]

RefFir(cplx, g, gl, L, a, M, F) ==
    RefJoin(L, gl, SubStatus(FALSE, "fir2long" \in F, LTFATERR_BADARG),
            GabdualLongRes(cplx, [in |-> Fir2Long(g, gl, L), out |-> Fresh("old", L)],
                           "in", FALSE, L, 1, a, M, "out", FALSE, F),
            SubStatus(FALSE, "long2fir" \in F, LTFATERR_BADARG))

FirCompared ==
    /\ mode = "dual" /\ last.op = "gabdual_fir"
    /\ last.nulls = {} /\ req.faults = {}
    /\ req.gdl = req.gl
    /\ FirArgStatus(FALSE, req.gl, req.L, req.gdl, FALSE) = LTFATERR_SUCCESS

\* C9: with 0 < gl <= L and every allocation and sub-step succeeding,
\* gabdual_fir(g, gl, L, a, M, gl, gd) returns the status of
\* long2fir(gabdual_long(fir2long(g, gl, L), L, 1, a, M), L, gl) computed on
\* distinct buffers and, on Success, the same gd sample by sample.
C9_FirLongEquivalence ==
    FirCompared =>
        LET ref == RefFir(req.cplx, Fresh("g", req.gl), req.gl, req.L,
                          req.a, req.M, req.faults)
        IN /\ last.status = ref.status
           /\ last.status = LTFATERR_SUCCESS => last.out = ref.out

C9_Witness ==
    /\ FirCompared /\ last.status = LTFATERR_SUCCESS
    /\ req.gl > 1 /\ req.L > req.gl /\ req.a > 1 /\ req.M > req.a

====
